---- MODULE Spec2Model ----
(***************************************************************************)
(* Model of the HMM model selectors (my_model_selectors.py) and of the     *)
(* recognizer (my_recognizer.py).                                          *)
(*                                                                         *)
(* The external Gaussian-HMM fitter and scorer are the environment: every  *)
(* call of fit() and score() either fails (raises) or succeeds, and a      *)
(* successful score() returns a finite log-likelihood.  Each loop          *)
(* iteration of select() / recognize() is one action whose inputs are the  *)
(* outcomes of the external calls it makes.                                *)
(*                                                                         *)
(* Numbers.  Log-likelihoods are integers.  A criterion value is a         *)
(* fraction <<num, den>> with den >= 0; den = 0 is the NaN numpy produces  *)
(* for the mean of an empty list.  BIC values are in thousandths, with     *)
(* log(N) taken from a table of floor(1000 * ln N).  A likelihood recorded *)
(* by recognize() is <<1, v>> for the finite value v or <<0, 0>> for       *)
(* float('-Inf').  A list of log-likelihoods that the code only appends to *)
(* and averages (likelihoods, scores_temp) is kept as <<sum, length>>, the *)
(* two numbers np.mean reads.                                              *)
(***************************************************************************)
EXTENDS Integers, Sequences, FiniteSets, TLC

\* ---------------------------------------------------------------- bounds
MaxN == 4          \* max_n_components of the modelled selectors
MaxSeq == 3        \* a word has 1..MaxSeq sequences
MaxFrames == 2     \* sequence i has ((i-1) % MaxFrames) + 1 frames
MaxDim == 2        \* feature dimensionality d ranges over 1..MaxDim
MaxOthers == 1     \* the shared mapping holds 0..MaxOthers other words
MaxLL == 2         \* score() returns one of MaxLL distinct log-likelihoods
LLUnit == 5        \* spacing of the log-likelihoods score() returns
MaxModels == 2     \* recognize(): 0..MaxModels words in models
MaxItems == 1      \* recognize(): 1..MaxItems test items

\* ------------------------------------------------------ program constants
n_constant == 3         \* default of ModelSelector.__init__
min_n_components == 2   \* default of ModelSelector.__init__
n_splits == 3           \* KFold() default fold count
this_word == 1          \* the selector's word; other words are 2, 3, ...
NoGuess == 0            \* best_guess = None (words are positive)

max_n_components == MaxN

\* ------------------------------------------------------------ environment
LogLs == { -(LLUnit * k) : k \in 1..MaxLL }

\* outcome of one score() call: <<FALSE, 0>> raises, <<TRUE, v>> returns v
Raises == <<FALSE, 0>>
ScoreOutcomes == {Raises} \cup { <<TRUE, v>> : v \in LogLs }

\* ------------------------------------------------------------------ data
RECURSIVE SumSeq(_)
SumSeq(s) == IF s = <<>> THEN 0 ELSE Head(s) + SumSeq(Tail(s))

RECURSIVE Concat(_)
Concat(ss) == IF ss = <<>> THEN <<>> ELSE Head(ss) \o Concat(Tail(ss))

\* frames of sequence i of word w; a frame is <<word, sequence, position>>
SeqLen(i) == ((i - 1) % MaxFrames) + 1
SeqOf(w, i) == [t \in 1..SeqLen(i) |-> <<w, i, t>>]

\* all_word_sequences[w] for a word with k sequences
SequencesOf(w, k) == [i \in 1..k |-> SeqOf(w, i)]

\* all_word_Xlengths[w]: the flattened frames and the per-sequence lengths
XlengthsOf(w, k) ==
    [X |-> Concat(SequencesOf(w, k)),
     lengths |-> [i \in 1..k |-> SeqLen(i)]]

\* values select() can return: a fitted model, None, or a bare integer
Hmm(n, X, lengths) == [tag |-> "hmm", n |-> n, X |-> X, lengths |-> lengths]
None == [tag |-> "None", n |-> 0, X |-> <<>>, lengths |-> <<>>]
IntValue(k) == [tag |-> "int", n |-> k, X |-> <<>>, lengths |-> <<>>]
Pending == [tag |-> "pending", n |-> 0, X |-> <<>>, lengths |-> <<>>]

\* ------------------------------------------------------------- arithmetic
\* floor(1000 * ln N) for N = 1..16
LogTable == <<0, 693, 1098, 1386, 1609, 1791, 1945, 2079,
              2197, 2302, 2397, 2484, 2564, 2639, 2708, 2772>>
LogMilli(N) == LogTable[N]

\* fractions; den = 0 is NaN, every comparison with NaN is false
Frac(num, den) == <<num, den>>
IsNaN(a) == a[2] = 0
FracLT(a, b) == ~IsNaN(a) /\ ~IsNaN(b) /\ a[1] * b[2] < b[1] * a[2]
FracGT(a, b) == FracLT(b, a)
FracEQ(a, b) == ~IsNaN(a) /\ ~IsNaN(b) /\ a[1] * b[2] = b[1] * a[2]

\* a list of numbers as <<sum, length>>: [], list.append(v), np.mean(list)
\* (NaN for the empty list)
EmptyList == <<0, 0>>
ListAppend(l, v) == <<l[1] + v, l[2] + 1>>
Mean(l) == Frac(l[1], l[2])

\* min(scores, key = lambda x: x[0]): the first entry no later one is below
RECURSIVE MinFrom(_, _, _)
MinFrom(s, i, best) ==
    IF i > Len(s) THEN best
    ELSE MinFrom(s, i + 1, IF FracLT(s[i].result, best.result) THEN s[i] ELSE best)
PyMin(s) == MinFrom(s, 2, s[1])

\* max(scores, key = lambda x: x[0]): the first entry no later one is above
RECURSIVE MaxFrom(_, _, _)
MaxFrom(s, i, best) ==
    IF i > Len(s) THEN best
    ELSE MaxFrom(s, i + 1, IF FracGT(s[i].result, best.result) THEN s[i] ELSE best)
PyMax(s) == MaxFrom(s, 2, s[1])

\* ------------------------------------------------------------------ folds
\* KFold(n_splits).split over n samples, no shuffling: fold j (0-based) tests
\* a contiguous block; the first n % n_splits blocks hold one index more
FoldSize(j, n) == (n \div n_splits) + (IF j < n % n_splits THEN 1 ELSE 0)

RECURSIVE FoldStart(_, _)
FoldStart(j, n) == IF j = 0 THEN 0 ELSE FoldStart(j - 1, n) + FoldSize(j - 1, n)

test_index(j, n) == [i \in 1..FoldSize(j, n) |-> FoldStart(j, n) + i - 1]

RECURSIVE Without(_, _, _)
Without(i, n, skip) ==
    IF i >= n THEN <<>>
    ELSE (IF i \in skip THEN <<>> ELSE <<i>>) \o Without(i + 1, n, skip)

\* variant: every index is a training index
train_index_all(j, n) == Without(0, n, {})

train_index(j, n) ==
    Without(0, n, {test_index(j, n)[i] : i \in 1..FoldSize(j, n)})

\* asl_utils.combine_sequences: the sequences at the given 0-based positions,
\* concatenated in the order given, with their lengths
combine_sequences(index, seqs) ==
    [X |-> Concat([i \in 1..Len(index) |-> seqs[index[i] + 1]]),
     lengths |-> [i \in 1..Len(index) |-> Len(seqs[index[i] + 1])]]

\* ---------------------------------------------------------- extended reals
\* a likelihood recorded by recognize(): <<1, v>> finite, <<0, 0>> is -Inf
NegInf == <<0, 0>>
Finite(v) == <<1, v>>
\* variant: >= instead of >
ExtGE(a, b) == \/ a[1] > b[1]
               \/ a[1] = 1 /\ b[1] = 1 /\ a[2] >= b[2]

ExtGT(a, b) == \/ a[1] > b[1]
               \/ a[1] = 1 /\ b[1] = 1 /\ a[2] > b[2]

\* ------------------------------------------------------------------ state
VARIABLES
    kind,          \* which program runs: a selector class or "recognize"
    sequences,     \* self.sequences
    hwords,        \* self.hwords: word -> [X, lengths]
    X,             \* self.X
    lengths,       \* self.lengths
    d,             \* feature dimensionality (model.n_features)
    pc,            \* "loop", "done", or "raised" when an exception escapes
    num_states,    \* loop variable of select()
    fold,          \* SelectorCV: folds of num_states already run
    model,         \* local variable model of select()
    likelihoods,   \* SelectorCV: local list likelihoods
    scores,        \* local list scores of select()
    result,        \* value returned by select()
    foldLLs,       \* history: likelihoods of the folds of num_states so far
    trials,        \* history: per scored candidate, its own likelihood and
                   \* the lists of its other-word and fold likelihoods
    failed,        \* history: the candidates whose trial raised
    otherFailed,   \* history: SelectorDIC candidates that were fitted and
                   \* then raised while scoring another word
    models,        \* recognize(): the models dict, in enumeration order
    numItems,      \* recognize(): number of test items
    item,          \* recognize(): position of the current test item
    widx,          \* recognize(): position of the current word in models
    best_score,    \* recognize(): local best_score
    best_guess,    \* recognize(): local best_guess
    item_likelihoods, \* recognize(): local dict likelihoods
    probabilities, \* recognize(): list probabilities
    guesses,       \* recognize(): list guesses
    cur_outcomes,  \* history: score() outcomes for the current item
    outcomes       \* history: score() outcomes of the finished items

selVars == <<sequences, hwords, X, lengths, d, num_states, fold, model,
             likelihoods, scores, result, foldLLs, trials, failed,
             otherFailed>>

recVars == <<models, numItems, item, widx, best_score, best_guess,
             item_likelihoods, probabilities, guesses, cur_outcomes, outcomes>>

vars == <<kind, pc, selVars, recVars>>

Selectors == {"Constant", "BIC", "DIC", "CV"}

\* the variables of select() before ModelSelector.__init__ for a word with k
\* sequences and m other words in the shared mapping
SelectorInit(k, m, dim) ==
    /\ sequences = SequencesOf(this_word, k)
    /\ hwords = [w \in 1..(m + 1) |->
                   IF w = this_word THEN XlengthsOf(w, k) ELSE XlengthsOf(w, 1)]
    /\ X = XlengthsOf(this_word, k).X
    /\ lengths = XlengthsOf(this_word, k).lengths
    /\ d = dim
    /\ num_states = min_n_components
    /\ fold = 0
    /\ model = None
    /\ likelihoods = EmptyList
    /\ scores = <<>>
    /\ result = Pending
    /\ foldLLs = EmptyList
    /\ trials = <<>>
    /\ failed = {}
    /\ otherFailed = {}

\* values a models dict can hold: what the selectors return
ModelValues == {Hmm(n_constant, <<>>, <<>>), None, IntValue(n_constant)}

\* the variables of recognize() at its first test item
RecognizeInit(ms, ni) ==
    /\ models = ms
    /\ numItems = ni
    /\ item = 1
    /\ widx = 1
    /\ best_score = NegInf
    /\ best_guess = NoGuess
    /\ item_likelihoods = <<>>
    /\ probabilities = <<>>
    /\ guesses = <<>>
    /\ cur_outcomes = <<>>
    /\ outcomes = <<>>

\* the inputs a selector class reads: d enters only SelectorBIC's penalty,
\* the other words of the mapping are scored only by SelectorDIC, which in
\* turn never looks into the word's own sequences; SelectorCV only asks
\* whether the word has more than 2 sequences
Dims(cls) == IF cls = "BIC" THEN 1..MaxDim ELSE {1}
Others(cls) == IF cls = "DIC" THEN 0..MaxOthers ELSE {0}
SeqCounts(cls) ==
    CASE cls = "DIC" -> {1}
      [] cls = "CV" -> {2, MaxSeq}
      [] OTHER -> 1..MaxSeq

Init ==
    /\ pc = "loop"
    /\ \/ /\ kind \in Selectors
          /\ \E k \in SeqCounts(kind), m \in Others(kind), dim \in Dims(kind) :
                SelectorInit(k, m, dim)
          /\ RecognizeInit(<<>>, 0)
       \/ /\ kind = "recognize"
          /\ SelectorInit(1, 0, 1)
          /\ \E k \in 0..MaxModels : \E ms \in [1..k -> ModelValues] :
                \E ni \in 1..MaxItems : RecognizeInit(ms, ni)

\* ModelSelector.base_model: fit on (self.X, self.lengths); the except
\* clause turns a failed fit into None
base_model(n, fitOK, selfX, selfLengths) ==
    IF fitOK THEN Hmm(n, selfX, selfLengths) ELSE None

\* model.score(...): raises on a value that is not a model
Score(m, outcome) == IF m.tag = "hmm" THEN outcome ELSE Raises

\* variant: no except clause around the trial
Escapes_Uncaught(raised) == raised

\* try: ... except: pass -- does an exception raised in the body escape?
Escapes(raised) == FALSE

\* what a trial leaves behind when its body raised
AfterTrial(raised) ==
    /\ pc' = IF Escapes(raised) THEN "raised" ELSE pc
    /\ failed' = IF raised THEN failed \cup {num_states} ELSE failed

Trial(n, own, others, folds) ==
    [n |-> n, own |-> own, others |-> others, folds |-> folds]

\* SelectorConstant.select
ConstantSelect ==
    /\ kind = "Constant" /\ pc = "loop"
    /\ \E fitOK \in BOOLEAN :
        /\ model' = base_model(n_constant, fitOK, X, lengths)
        /\ result' = model'
        /\ failed' = IF fitOK THEN failed ELSE failed \cup {n_constant}
    /\ pc' = "done"
    /\ UNCHANGED <<kind, sequences, hwords, X, lengths, d, num_states, fold,
                   likelihoods, scores, foldLLs, trials, otherFailed,
                   recVars>>

\* variant: the transition parameters are left out of the count
BICParams_NoSquare(n, dim) == 2 * dim * n - 1

\* p = num_states ** 2 + 2 * d * num_states - 1
BICParams(n, dim) == n * n + 2 * dim * n - 1

\* result = -2.0 * logL + p * logN, in thousandths
BICValue(logL, n, dim, N) ==
    Frac(-2 * 1000 * logL + BICParams(n, dim) * LogMilli(N), 1)

\* SelectorBIC.select: one iteration of the loop over num_states
BICTrial ==
    /\ kind = "BIC" /\ pc = "loop" /\ num_states <= max_n_components
    /\ \E fitOK \in BOOLEAN, o \in ScoreOutcomes :
        LET m == base_model(num_states, fitOK, X, lengths)
            s == Score(m, o)
        IN  /\ model' = m
            /\ IF s[1]
               THEN /\ scores' = Append(scores,
                         [result |-> BICValue(s[2], num_states, d, Len(X)),
                          model |-> m])
                    /\ trials' = Append(trials, Trial(num_states, s[2], EmptyList, EmptyList))
               ELSE UNCHANGED <<scores, trials>>
            /\ AfterTrial(~s[1])
    /\ num_states' = num_states + 1
    /\ UNCHANGED <<kind, sequences, hwords, X, lengths, d, fold,
                   likelihoods, foldLLs, result, otherFailed, recVars>>

\* if scores: return min(...)[1]  else: return self.n_constant
BICReturn ==
    /\ kind = "BIC" /\ pc = "loop" /\ num_states > max_n_components
    /\ result' = IF scores # <<>> THEN PyMin(scores).model ELSE IntValue(n_constant)
    /\ pc' = "done"
    /\ UNCHANGED <<kind, sequences, hwords, X, lengths, d, num_states, fold,
                   model, likelihoods, scores, foldLLs, trials, failed, otherFailed,
                   recVars>>

\* the words of self.hwords other than this_word, in iteration order
OtherWords == Without(1, Len(hwords) + 1, {this_word})

\* variant: the mean of the other words' scores is added
DICValue_Plus(own, scores_temp) ==
    Frac(own * Mean(scores_temp)[2] + Mean(scores_temp)[1], Mean(scores_temp)[2])

\* model.score(self.X, self.lengths) - np.mean(scores_temp)
DICValue(own, scores_temp) ==
    Frac(own * Mean(scores_temp)[2] - Mean(scores_temp)[1], Mean(scores_temp)[2])

\* SelectorDIC.select: one iteration of the loop over num_states
DICTrial ==
    /\ kind = "DIC" /\ pc = "loop" /\ num_states <= max_n_components
    /\ \E fitOK \in BOOLEAN, o \in ScoreOutcomes,
          oth \in [1..Len(OtherWords) -> ScoreOutcomes] :
        LET m == base_model(num_states, fitOK, X, lengths)
            so == [i \in 1..Len(OtherWords) |-> Score(m, oth[i])]
            scores_temp == <<SumSeq([i \in 1..Len(OtherWords) |-> so[i][2]]),
                             Len(OtherWords)>>
            s == Score(m, o)
            ok == s[1] /\ \A i \in 1..Len(OtherWords) : so[i][1]
        IN  /\ model' = m
            /\ IF ok
               THEN /\ scores' = Append(scores,
                         [result |-> DICValue(s[2], scores_temp), model |-> m])
                    /\ trials' = Append(trials,
                         Trial(num_states, s[2], scores_temp, EmptyList))
               ELSE UNCHANGED <<scores, trials>>
            /\ AfterTrial(~ok)
            /\ otherFailed' =
                  IF fitOK /\ \E i \in 1..Len(OtherWords) : ~oth[i][1]
                  THEN otherFailed \cup {num_states} ELSE otherFailed
    /\ num_states' = num_states + 1
    /\ UNCHANGED <<kind, sequences, hwords, X, lengths, d, fold,
                   likelihoods, foldLLs, result, recVars>>

\* if scores: return max(...)[1]  else: return self.n_constant
DICReturn ==
    /\ kind = "DIC" /\ pc = "loop" /\ num_states > max_n_components
    /\ result' = IF scores # <<>> THEN PyMax(scores).model ELSE IntValue(n_constant)
    /\ pc' = "done"
    /\ UNCHANGED <<kind, sequences, hwords, X, lengths, d, num_states, fold,
                   model, likelihoods, scores, foldLLs, trials, failed, otherFailed,
                   recVars>>

\* SelectorCV.select, len(self.sequences) > 2: one fold of num_states; the
\* last fold of a candidate also appends [np.mean(likelihoods), model]
CVFold ==
    /\ kind = "CV" /\ pc = "loop" /\ num_states <= max_n_components
    /\ Len(sequences) > 2
    /\ LET train == combine_sequences(train_index(fold, Len(sequences)), sequences)
           last == fold + 1 = n_splits
       IN  /\ X' = train.X
           /\ lengths' = train.lengths
           /\ \E fitOK \in BOOLEAN, o \in ScoreOutcomes :
                LET m == base_model(num_states, fitOK, X', lengths')
                    s == Score(m, o)
                IN  /\ model' = m
                    /\ likelihoods' =
                          IF s[1] THEN ListAppend(likelihoods, s[2]) ELSE likelihoods
                    /\ IF s[1] /\ last
                       THEN /\ scores' = Append(scores,
                                 [result |-> Mean(likelihoods'), model |-> m])
                            /\ trials' = Append(trials,
                                 Trial(num_states, 0, EmptyList,
                                       ListAppend(foldLLs, s[2])))
                       ELSE UNCHANGED <<scores, trials>>
                    /\ IF s[1] /\ ~last
                       THEN /\ fold' = fold + 1
                            /\ foldLLs' = ListAppend(foldLLs, s[2])
                            /\ UNCHANGED num_states
                       ELSE /\ fold' = 0
                            /\ foldLLs' = EmptyList
                            /\ num_states' = num_states + 1
                    /\ AfterTrial(~s[1])
    /\ UNCHANGED <<kind, sequences, hwords, d, result, otherFailed, recVars>>

\* SelectorCV.select, len(self.sequences) <= 2: fit on the whole word and
\* score it on itself; likelihoods becomes that single number
CVWhole ==
    /\ kind = "CV" /\ pc = "loop" /\ num_states <= max_n_components
    /\ Len(sequences) <= 2
    /\ \E fitOK \in BOOLEAN, o \in ScoreOutcomes :
        LET m == base_model(num_states, fitOK, X, lengths)
            s == Score(m, o)
        IN  /\ model' = m
            /\ IF s[1]
               THEN /\ likelihoods' = ListAppend(EmptyList, s[2])
                    /\ scores' = Append(scores,
                         [result |-> Mean(likelihoods'), model |-> m])
                    /\ trials' = Append(trials, Trial(num_states, s[2], EmptyList, EmptyList))
               ELSE UNCHANGED <<likelihoods, scores, trials>>
            /\ AfterTrial(~s[1])
    /\ num_states' = num_states + 1
    /\ UNCHANGED <<kind, sequences, hwords, X, lengths, d, fold, foldLLs,
                   result, otherFailed, recVars>>

\* if scores: return max(...)[1]  else: return self.n_constant
CVReturn ==
    /\ kind = "CV" /\ pc = "loop" /\ num_states > max_n_components
    /\ result' = IF scores # <<>> THEN PyMax(scores).model ELSE IntValue(n_constant)
    /\ pc' = "done"
    /\ UNCHANGED <<kind, sequences, hwords, X, lengths, d, num_states, fold,
                   model, likelihoods, scores, foldLLs, trials, failed, otherFailed,
                   recVars>>

\* variant: a failed score is recorded as 0
Recorded_Zero(s) == IF s[1] THEN Finite(s[2]) ELSE Finite(0)

\* likelihoods[word] = model.score(X, lengths), or float('-Inf') on failure
Recorded(s) == IF s[1] THEN Finite(s[2]) ELSE NegInf

\* recognize: one iteration of the loop over models.items()
RecScore ==
    /\ kind = "recognize" /\ pc = "loop"
    /\ item <= numItems /\ widx <= Len(models)
    /\ \E o \in ScoreOutcomes :
        LET s == Score(models[widx], o)
            v == Recorded(s)
        IN  /\ item_likelihoods' =
                  [w \in DOMAIN item_likelihoods \cup {widx} |->
                      IF w = widx THEN v ELSE item_likelihoods[w]]
            /\ IF s[1] /\ ExtGT(v, best_score)
               THEN best_guess' = widx /\ best_score' = v
               ELSE UNCHANGED <<best_guess, best_score>>
            /\ cur_outcomes' = Append(cur_outcomes, s)
            /\ pc' = IF Escapes(~s[1]) THEN "raised" ELSE pc
    /\ widx' = widx + 1
    /\ UNCHANGED <<kind, selVars, models, numItems, item, probabilities,
                   guesses, outcomes>>

\* recognize: the end of one test item, and the start of the next
RecNextItem ==
    /\ kind = "recognize" /\ pc = "loop"
    /\ item <= numItems /\ widx > Len(models)
    /\ probabilities' = Append(probabilities, item_likelihoods)
    /\ guesses' = Append(guesses, best_guess)
    /\ outcomes' = Append(outcomes, cur_outcomes)
    /\ item' = item + 1
    /\ widx' = 1
    /\ best_score' = NegInf
    /\ best_guess' = NoGuess
    /\ item_likelihoods' = <<>>
    /\ cur_outcomes' = <<>>
    /\ UNCHANGED <<kind, pc, selVars, models, numItems>>

\* return probabilities, guesses
RecReturn ==
    /\ kind = "recognize" /\ pc = "loop" /\ item > numItems
    /\ pc' = "done"
    /\ UNCHANGED <<kind, selVars, recVars>>

Next ==
    \/ ConstantSelect
    \/ BICTrial
    \/ BICReturn
    \/ DICTrial
    \/ DICReturn
    \/ CVFold
    \/ CVWhole
    \/ CVReturn
    \/ RecScore
    \/ RecNextItem
    \/ RecReturn

Spec == Init /\ [][Next]_vars

\* ----------------------------------------------------------------- claims
Searching == {"BIC", "DIC", "CV"}
Candidates == min_n_components..max_n_components
Returned == kind \in Selectors /\ pc = "done"
WholeWord == hwords[this_word]

\* the candidates that have an entry in scores
Scored == { scores[i].model.n : i \in 1..Len(scores) }

\* C1: for SelectorBIC, SelectorDIC and SelectorCV, when every candidate of
\* the range failed to fit or to score, select() returns a model fitted at
\* the fallback state count n_constant.
C1_FallbackIsModel ==
    (kind \in Searching /\ pc = "done" /\ \A n \in Candidates : n \in failed)
        => (result.tag = "hmm" /\ result.n = n_constant)

\* C2: select() of every selector never raises: every failure is caught, the
\* failing candidate is not in the score list, the search goes on with the
\* next candidate (the loop variable is past every failed candidate and
\* stops right after the range), and select() returns a value.
C2_NeverRaises ==
    kind \in Selectors =>
        /\ pc \in {"loop", "done"}
        /\ pc = "done" <=> result.tag # "pending"
        /\ kind \in Searching =>
              /\ \A n \in failed : n \notin Scored /\ n < num_states
              /\ num_states <= max_n_components + 1
              /\ pc = "done" => num_states = max_n_components + 1

C2_Witness ==
    /\ kind \in Searching /\ pc = "done"
    /\ \E n \in failed : \E k \in Scored : k > n

\* C3: in SelectorCV.select(), for a word with more than 2 sequences, the
\* value recorded for a candidate is the mean of exactly the n_splits
\* validation likelihoods of that candidate's own folds.
C3_MeanOfOwnFolds ==
    (kind = "CV" /\ Len(sequences) > 2) =>
        \A i \in 1..Len(scores) :
            /\ trials[i].folds[2] = n_splits
            /\ scores[i].result[2] # 0
            /\ scores[i].result[1] * n_splits
                  = trials[i].folds[1] * scores[i].result[2]

\* C4: SelectorBIC.select() returns, among the candidates whose fit and
\* score succeeded, a model fitted on the whole word whose
\* -2*logL + (n^2 + 2*d*n - 1)*log(N) is minimal, N the number of frames.
C4_BICMinimal ==
    (kind = "BIC" /\ pc = "done" /\ \E n \in Candidates : n \notin failed) =>
        /\ result.tag = "hmm"
        /\ result.X = WholeWord.X /\ result.lengths = WholeWord.lengths
        /\ { trials[i].n : i \in 1..Len(trials) } = Candidates \ failed
        /\ \E i \in 1..Len(trials) :
              /\ trials[i].n = result.n
              /\ \A j \in 1..Len(trials) :
                    -2000 * trials[i].own
                        + (trials[i].n * trials[i].n + 2 * d * trials[i].n - 1)
                              * LogMilli(SumSeq(WholeWord.lengths))
                    <= -2000 * trials[j].own
                        + (trials[j].n * trials[j].n + 2 * d * trials[j].n - 1)
                              * LogMilli(SumSeq(WholeWord.lengths))

\* two scored candidates, and the one returned is not the first
C4_Witness ==
    /\ kind = "BIC" /\ pc = "done" /\ Len(scores) >= 2
    /\ result.tag = "hmm" /\ result.n # scores[1].model.n
    /\ Len(X) > 1

C6_OneEntryPerWord ==
    kind = "recognize" =>
        /\ Len(probabilities) = item - 1
        /\ \A i \in 1..Len(probabilities) :
              /\ DOMAIN probabilities[i] = 1..Len(models)
              /\ \A w \in 1..Len(models) :
                    /\ probabilities[i][w] = NegInf <=> ~outcomes[i][w][1]
                    /\ outcomes[i][w][1] =>
                          probabilities[i][w] = Finite(outcomes[i][w][2])

\* an item with one word that failed and one that scored
C6_Witness ==
    /\ kind = "recognize" /\ pc = "done"
    /\ \E i \in 1..Len(probabilities) :
          \E w, u \in 1..Len(models) :
              ~outcomes[i][w][1] /\ outcomes[i][u][1]

\* C7: the guess for a test item is the word with the greatest recorded
\* likelihood, the first such word in the enumeration order of models; when
\* every model fails on the item the guess is None and every recorded
\* likelihood is -Inf.
C7_GuessIsFirstMax ==
    kind = "recognize" =>
        /\ Len(guesses) = Len(probabilities)
        /\ \A i \in 1..Len(guesses) :
              LET p == probabilities[i]
                  g == guesses[i]
              IN  IF \E w \in 1..Len(models) : outcomes[i][w][1]
                  THEN /\ g \in 1..Len(models)
                       /\ \A w \in 1..Len(models) : ~ExtGT(p[w], p[g])
                       /\ \A w \in 1..(g - 1) : ExtGT(p[g], p[w])
                  ELSE /\ g = NoGuess
                       /\ \A w \in 1..Len(models) : p[w] = NegInf

\* an item where two words tie for the greatest likelihood
C7_Witness ==
    /\ kind = "recognize" /\ pc = "done" /\ Len(models) >= 2
    /\ \E i \in 1..Len(guesses) :
          /\ guesses[i] = 1
          /\ probabilities[i][1] # NegInf
          /\ probabilities[i][2] = probabilities[i][1]

\* criterion of a scored candidate as the selector defines it, as a fraction:
\* BIC in thousandths, own - mean(others) for DIC, the mean of the
\* candidate's own likelihoods for CV
Criterion(t) ==
    CASE kind = "BIC" ->
           Frac(-2000 * t.own + (t.n * t.n + 2 * d * t.n - 1)
                                    * LogMilli(SumSeq(WholeWord.lengths)), 1)
      [] kind = "DIC" ->
           Frac(t.own * t.others[2] - t.others[1], t.others[2])
      [] OTHER ->
           IF t.folds[2] = 0 THEN Frac(t.own, 1)
           ELSE Frac(t.folds[1], t.folds[2])

Better(a, b) == IF kind = "BIC" THEN FracLT(a, b) ELSE FracGT(a, b)

\* C8: for SelectorBIC, SelectorDIC and SelectorCV, when several scored
\* candidates share the optimal criterion value, select() returns the one
\* with the smallest state count.
C8_TieSmallestN ==
    (kind \in Searching /\ pc = "done" /\ trials # <<>>) =>
        \A i \in 1..Len(trials) :
            ( /\ \A k \in 1..Len(trials) :
                    ~Better(Criterion(trials[k]), Criterion(trials[i]))
              /\ \A k \in 1..(i - 1) :
                    ~FracEQ(Criterion(trials[k]), Criterion(trials[i]))
              /\ \E j \in (i + 1)..Len(trials) :
                    FracEQ(Criterion(trials[j]), Criterion(trials[i])) )
            => (result.tag = "hmm" /\ result.n = trials[i].n)

\* C9: select() leaves the selector's stored inputs alone: at every point
\* self.X and self.lengths are the word's entry of the shared mapping, and
\* the mapping and the word's sequence list are as constructed.
C9_InputsUnchanged ==
    kind \in Selectors =>
        /\ X = WholeWord.X /\ lengths = WholeWord.lengths
        /\ sequences = SequencesOf(this_word, Len(sequences))
        /\ WholeWord = XlengthsOf(this_word, Len(sequences))
        /\ \A w \in DOMAIN hwords : w # this_word => hwords[w] = XlengthsOf(w, 1)

\* C10: for a word with more than 2 sequences, the model SelectorCV.select()
\* returns was fitted in the last fold of its candidate, on the sequences
\* that fold does not hold out (KFold's last fold holds out the last
\* len // n_splits sequences); no model is ever fitted on the whole word.
C10_LastFoldModel ==
    (kind = "CV" /\ Len(sequences) > 2) =>
        /\ model.tag = "hmm" => model.X # WholeWord.X
        /\ (pc = "done" /\ result.tag = "hmm") =>
              /\ result.X = Concat(SubSeq(sequences, 1,
                                Len(sequences) - (Len(sequences) \div n_splits)))
              /\ result.lengths = [i \in 1..(Len(sequences)
                                  - (Len(sequences) \div n_splits)) |-> Len(sequences[i])]
              /\ result.X # WholeWord.X

C10_Witness ==
    /\ kind = "CV" /\ Len(sequences) > 2 /\ pc = "done"
    /\ result.tag = "hmm" /\ Len(scores) >= 2

====
